---- MODULE Spec2Model ----
(***************************************************************************)
(* TelDrive driver, resumable chunked upload: (d *TelDrive) Put of         *)
(* drivers/teldrive/driver.go, together with the remote service it talks   *)
(* to (the part registry of an upload session, chunk upload, file          *)
(* creation).  One behaviour is a sequence of Put calls on the same        *)
(* driver instance, destination and file; the remote registry persists     *)
(* from one call to the next.  Put is cut at its network calls: the        *)
(* registry lookup, one step per loop iteration (a skip or a chunk         *)
(* transfer with the handling of its response) and the create-file call.   *)
(***************************************************************************)
EXTENDS Integers, Sequences, FiniteSets, TLC

\* ------------------------------------------------------------------ bounds
\* Largest file, in whole megabytes (plus a remainder of RemainderBytes).
MaxFileMB == 3
\* Put calls in one behaviour.
MaxRuns == 2
\* Parts the registry may hold before the first call (left by earlier uploads).
MaxStaleParts == 1
MaxNamedChunks == 11

\* chunk_size values of the configuration, in MB, besides the default
ChunkSizesMB == {1, 2}
\* bytes of a file beyond its whole megabytes
RemainderBytes == {0, 1}
\* sequence numbers of the parts left in the registry before the first call
StalePartNos == {0, 1, 2}

\* ------------------------------------------------------- program constants
\* Addition.ChunkSize default:"500"
DefaultChunkSize == 500
\* chunkSize := d.ChunkSize * 1024 * 1024
MB == 1024 * 1024
\* the spec's scenario: S = 1,200,000,000 bytes with the default chunk size
ScenarioFileSize == 1200000000

None == "none"
\* nil error, nil model.Obj, no CreateFileRequest sent, Put still running
NoError == [msg |-> "", args |-> <<>>]
NoObject == [Name |-> "", Size |-> 0, IsFolder |-> FALSE]
NoRequest == [Name |-> "", Type |-> "", Size |-> 0, Parts |-> <<>>]
NoResult == [returned |-> FALSE, obj |-> NoObject, err |-> NoError]
NoSummary == [valid |-> FALSE, failed |-> FALSE, transferred |-> {}, registered |-> {},
              names |-> {}, identity |-> <<>>, session |-> <<>>]

VARIABLES
    d,              \* the driver instance: [ChunkSize, userId, RandomChunkName]
    dstDir,         \* destination directory: [Path]
    file,           \* the FileStreamer: [Name, Size]
    targets,        \* the (directory, name) pairs Put is called with: set of [Path, Name]
    echoPartNo,     \* remote API: does the chunk-upload response carry partNo
    remote,         \* remote part registry: upload id -> (partNo -> PartFile)
    nextPartId,     \* remote: id the service gives the next stored part
    run,            \* number of Put calls started
    pc,             \* position of the current Put call
    existingChunks, \* Put local: map[int]PartFile
    partsToCommit,  \* Put local: []PartFile
    uploadedSize,   \* Put local: int64
    chunkNo,        \* Put local: loop variable
    pos,            \* bytes of the file stream consumed so far
    cancelled,      \* ctx.Done() is closed
    sentAfterCancel,\* history: a chunk or create-file request went out after that
    requests,       \* history: the network requests issued by this call
    progress,       \* history: the calls of up(), as [chunkNo, uploaded, total]
    createFileReq,  \* the CreateFileRequest sent, or NoRequest
    result,         \* what Put returned: [obj, err], NoResult while running
    prev            \* history: summary of the previous Put call

vars == <<d, dstDir, file, targets, echoPartNo, remote, nextPartId, run, pc,
          existingChunks, partsToCommit, uploadedSize, chunkNo, pos, cancelled,
          sentAfterCancel, requests, progress, createFileReq, result, prev>>

inputs == <<d, dstDir, file, targets, echoPartNo>>
locals == <<existingChunks, partsToCommit, uploadedSize, chunkNo, pos>>
ctx == <<cancelled, sentAfterCancel>>

\* ------------------------------------------------------------ pure helpers
Min(a, b) == IF a < b THEN a ELSE b
Max(a, b) == IF a > b THEN a ELSE b

EmptyMap == [x \in {} |-> None]

\* getMD5Hash: the digest, taken as injective on the text it hashes.
getMD5Hash(text) == <<"md5", text>>

\* parentPath := dstDir.GetPath(); if parentPath == "/" { parentPath = "" }
ParentPath(dir) == IF dir.Path = "/" THEN "" ELSE dir.Path

\* fmt.Sprintf("%s:%s:%d:%d", parentPath, fileName, fileSize, d.userId)
UploadIDText(parentPath, fileName, fileSize, userId) ==
    parentPath \o ":" \o fileName \o ":" \o ToString(fileSize) \o ":" \o ToString(userId)

UploadID(parentPath, fileName, fileSize, userId) ==
    getMD5Hash(UploadIDText(parentPath, fileName, fileSize, userId))

uploadID == UploadID(ParentPath(dstDir), file.Name, file.Size, d.userId)

\* What the upload id is computed from: the values handed to Sprintf.
Identity == <<ParentPath(dstDir), file.Name, file.Size, d.userId>>

\* Faulty variant: only sizes below -1 are rejected.
UnknownSizeBelowMinusOne(size) == size < -1

\* if fileSize < 0 { return nil, fmt.Errorf(...) }
UnknownSize(size) == size < 0

\* chunkSize := d.ChunkSize * 1024 * 1024
ChunkSizeBytes(drv) == drv.ChunkSize * MB

\* Faulty variant: the division without the rounding up.
TotalChunksFloor(fileSize, chunkSize) == fileSize \div chunkSize

\* Faulty variant: one chunk more than the bytes that do not fill a chunk need,
\* so an empty file gets a chunk.
TotalChunksQuotientPlusOne(fileSize, chunkSize) == fileSize \div chunkSize + 1

\* totalChunks := (fileSize + chunkSize - 1) / chunkSize
TotalChunks(fileSize, chunkSize) == (fileSize + chunkSize - 1) \div chunkSize

fileSize == file.Size
chunkSize == ChunkSizeBytes(d)
totalChunks == TotalChunks(fileSize, chunkSize)

\* Faulty variant: the loop stops one chunk early.
LoopContinuesExclusive(no, total) == no < total

\* for chunkNo := 1; chunkNo <= int(totalChunks); chunkNo++
LoopContinues(no, total) == no <= total

\* fmt's %03d for a chunk number: at least three digits, zeros on the left.
Pad3(no) ==
    IF no < 10 THEN "00" \o ToString(no)
    ELSE IF no < 100 THEN "0" \o ToString(no)
    ELSE ToString(no)

\* uuid.New().String(): a value no earlier call of uuid.New() has returned; the
\* run and the number of requests sent so far name the call.
NewUuid == "uuid-" \o ToString(run) \o "-" \o ToString(Len(requests))

\* Faulty variant: the chunk number is written without padding.
ChunkNameUnpadded(drv, fileName, total, no, uuid) ==
    IF drv.RandomChunkName THEN getMD5Hash(uuid)
    ELSE IF total > 1 THEN fileName \o ".part." \o ToString(no)
    ELSE fileName

\* chunkName := fileName; if d.RandomChunkName { chunkName = getMD5Hash(uuid) }
\* else if totalChunks > 1 { chunkName = Sprintf("%s.part.%03d", fileName, chunkNo) }
ChunkName(drv, fileName, total, no, uuid) ==
    IF drv.RandomChunkName THEN getMD5Hash(uuid)
    ELSE IF total > 1 THEN fileName \o ".part." \o Pad3(no)
    ELSE fileName

\* Faulty variant: the loop steps over every second chunk.
NextChunkNoSkipsOne(no) == no + 2

\* chunkNo++
NextChunkNo(no) == no + 1

\* n := chunkSize; if chunkNo == int(totalChunks) { n = fileSize - uploadedSize }
ChunkLength(no, total, csize, fsize, uploaded) ==
    IF no = total THEN fsize - uploaded ELSE csize

\* Faulty variant: the skip does not discard the chunk's bytes.
SkipLengthZero(existing) == 0

\* io.CopyN(io.Discard, file, existing.Size)
SkipLength(existing) == existing.Size

\* Bytes a reader limited to n takes from a stream with `remaining` bytes left:
\* io.LimitReader(file, n) read to EOF, io.CopyN(io.Discard, file, n).
BytesRead(n, remaining) == Min(Max(n, 0), remaining)

\* FilePart{ID: part.PartId, Salt: part.Salt}
FilePart(part) == [ID |-> part.PartId, Salt |-> part.Salt]

\* sort.Slice(partsToCommit, less by PartNo): for fewer than 12 elements the
\* runtime sorts by insertion, which keeps equal keys in their order.
RECURSIVE InsertByPartNo(_, _)
InsertByPartNo(sorted, part) ==
    IF sorted = <<>> THEN <<part>>
    ELSE IF sorted[Len(sorted)].PartNo > part.PartNo
         THEN Append(InsertByPartNo(SubSeq(sorted, 1, Len(sorted) - 1), part),
                     sorted[Len(sorted)])
         ELSE Append(sorted, part)

RECURSIVE SortByPartNo(_)
SortByPartNo(parts) ==
    IF parts = <<>> THEN <<>>
    ELSE InsertByPartNo(SortByPartNo(SubSeq(parts, 1, Len(parts) - 1)),
                        parts[Len(parts)])

\* fileChunks: for _, part := range partsToCommit { append(FilePart{...}) }
FileChunks(parts) == [i \in 1..Len(parts) |-> FilePart(parts[i])]

\* --------------------------------------------------------- remote service
\* The salt the service returns with a part.
SaltOf(id) == IF id = 0 THEN "" ELSE "salt" \o ToString(id)

PartFile(no, id, size) == [PartNo |-> no, PartId |-> id, Size |-> size, Salt |-> SaltOf(id)]

RegistryOf(id) == IF id \in DOMAIN remote THEN remote[id] ELSE EmptyMap

\* The parts a registry holds, as the list the GET returns.
PartsOf(reg) == {reg[no] : no \in DOMAIN reg}

\* The service stores a part under the partNo of the request.
StorePart(id, part) ==
    LET reg == RegistryOf(id)
        new == [no \in DOMAIN reg \cup {part.PartNo} |->
                    IF no = part.PartNo THEN part ELSE reg[no]]
    IN  [u \in DOMAIN remote \cup {id} |-> IF u = id THEN new ELSE remote[u]]

\* Answers to GET /api/uploads/<uploadID>: a transport error, a status other
\* than 200, a 200 whose body does not parse, or a 200 with the parts.
LookupResponses(reg) ==
    { [err |-> TRUE,  status |-> 0,   valid |-> FALSE, parts |-> {}],
      [err |-> FALSE, status |-> 404, valid |-> TRUE,  parts |-> PartsOf(reg)],
      [err |-> FALSE, status |-> 200, valid |-> FALSE, parts |-> PartsOf(reg)],
      [err |-> FALSE, status |-> 200, valid |-> TRUE,  parts |-> PartsOf(reg)] }

\* Text of a transport error of the request of chunk no: the client library
\* quotes the request URL, query included, in it.
TransportErrorText(no) == <<"Post", "partNo", ToString(no), "EOF">>

\* Answers to POST /api/uploads/<uploadID>?partNo=no with `len` bytes of body.
TransferResponses(no, len) ==
    { [err |-> TRUE, status |-> 0, valid |-> FALSE, text |-> TransportErrorText(no),
       part |-> PartFile(0, 0, 0)],
      [err |-> FALSE, status |-> 500, valid |-> TRUE, text |-> <<"internal server error">>,
       part |-> PartFile(0, 0, 0)],
      [err |-> FALSE, status |-> 200, valid |-> FALSE, text |-> <<"invalid character">>,
       part |-> PartFile(0, 0, 0)],
      [err |-> FALSE, status |-> 200, valid |-> TRUE, text |-> <<>>,
       part |-> PartFile(IF echoPartNo THEN no ELSE 0, 0, len)],
      [err |-> FALSE, status |-> 200, valid |-> TRUE, text |-> <<>>,
       part |-> PartFile(IF echoPartNo THEN no ELSE 0, nextPartId, len)] }

\* Answers to POST /api/files.
CreateResponses ==
    { [err |-> TRUE,  status |-> 0,   valid |-> FALSE],
      [err |-> FALSE, status |-> 500, valid |-> TRUE],
      [err |-> FALSE, status |-> 200, valid |-> FALSE],
      [err |-> FALSE, status |-> 200, valid |-> TRUE] }

\* ------------------------------------------------------------------- Put
\* Faulty variant: the status of the answer is not looked at.
ExistingChunksAnyStatus(resp) ==
    IF ~resp.err /\ resp.valid
    THEN [no \in {p.PartNo : p \in resp.parts} |->
              CHOOSE p \in resp.parts : p.PartNo = no]
    ELSE EmptyMap

\* if err == nil && resp.StatusCode() == 200 { err = json.Unmarshal(...);
\*   if err == nil { for _, part := range parts { existingChunks[part.PartNo] = part } } }
ExistingChunks(resp) ==
    IF ~resp.err /\ resp.status = 200 /\ resp.valid
    THEN [no \in {p.PartNo : p \in resp.parts} |->
              CHOOSE p \in resp.parts : p.PartNo = no]
    ELSE EmptyMap

\* Faulty variant: a 200 answer without a part id is taken as a success.
TransferErrorNoIdCheck(resp) ==
    IF resp.err THEN [msg |-> "upload chunk failed: %v", args |-> resp.text]
    ELSE IF resp.status # 200 THEN [msg |-> "upload chunk failed: %s", args |-> resp.text]
    ELSE IF ~resp.valid THEN [msg |-> "parse chunk info failed: %v", args |-> resp.text]
    ELSE NoError

\* The error Put returns for the answer to a chunk upload, or NoError:
\* the four checks that follow the POST, in their order.
TransferError(resp) ==
    IF resp.err THEN [msg |-> "upload chunk failed: %v", args |-> resp.text]
    ELSE IF resp.status # 200 THEN [msg |-> "upload chunk failed: %s", args |-> resp.text]
    ELSE IF ~resp.valid THEN [msg |-> "parse chunk info failed: %v", args |-> resp.text]
    ELSE IF resp.part.PartId = 0 THEN [msg |-> "upload chunk failed: no part id", args |-> <<>>]
    ELSE NoError

\* Faulty variant: the status of the answer to POST /api/files is not looked at.
CreateErrorNoStatusCheck(resp) ==
    IF resp.err THEN [msg |-> "create file failed: %v", args |-> <<>>]
    ELSE IF ~resp.valid THEN [msg |-> "parse file info failed: %v", args |-> <<>>]
    ELSE NoError

\* The error Put returns for the answer to the create-file request, or NoError.
CreateError(resp) ==
    IF resp.err THEN [msg |-> "create file failed: %v", args |-> <<>>]
    ELSE IF resp.status # 200 THEN [msg |-> "create file failed: %s", args |-> <<>>]
    ELSE IF ~resp.valid THEN [msg |-> "parse file info failed: %v", args |-> <<>>]
    ELSE NoError

\* The answer says the request was served: a 200 with a body that parses and,
\* for a chunk, a part id.
Served(resp) == ~resp.err /\ resp.status = 200 /\ resp.valid
ServedPart(resp) == Served(resp) /\ resp.part.PartId # 0

\* A request as the history keeps it: what was sent and whether it was served.
Request(kind, name, no, n, offset, len, served) ==
    [kind |-> kind, name |-> name, chunkNo |-> no, n |-> n, offset |-> offset,
     len |-> len, served |-> served]

\* What the history of a call keeps of the call before it, and of the registry
\* as the call finds it.
Summary ==
    [valid |-> result.returned,
     failed |-> result.err # NoError,
     transferred |-> {requests[i].chunkNo : i \in
                        {j \in DOMAIN requests :
                           requests[j].kind = "transfer" /\ requests[j].served}},
     registered |-> DOMAIN RegistryOf(uploadID),
     names |-> {requests[i].name : i \in {j \in DOMAIN requests :
                                              requests[j].kind = "transfer"}},
     identity |-> Identity,
     session |-> uploadID]

\* Put is called with a stream of unknown size: fileSize < 0.
PutUnknownSize ==
    /\ pc \in {"idle", "done"} /\ run < MaxRuns
    /\ UnknownSize(file.Size)
    /\ run' = run + 1
    /\ prev' = Summary
    /\ result' = [returned |-> TRUE, obj |-> NoObject,
                  err |-> [msg |-> "unknown size not supported", args |-> <<>>]]
    /\ pc' = "done"
    /\ existingChunks' = EmptyMap /\ partsToCommit' = <<>> /\ uploadedSize' = 0
    /\ chunkNo' = 0 /\ pos' = 0 /\ cancelled' = FALSE /\ sentAfterCancel' = FALSE
    /\ requests' = <<>> /\ progress' = <<>> /\ createFileReq' = NoRequest
    /\ \E t \in targets :
         /\ dstDir' = [Path |-> t.Path]
         /\ file' = [Name |-> t.Name, Size |-> file.Size]
    /\ UNCHANGED <<d, targets, echoPartNo, remote, nextPartId>>

\* Put is called: the size check passes, the plan and the upload id are derived.
PutBegin ==
    /\ pc \in {"idle", "done"} /\ run < MaxRuns
    /\ ~UnknownSize(file.Size)
    /\ run' = run + 1
    /\ prev' = Summary
    /\ result' = NoResult
    /\ pc' = "lookup"
    /\ existingChunks' = EmptyMap /\ partsToCommit' = <<>> /\ uploadedSize' = 0
    /\ chunkNo' = 0 /\ pos' = 0 /\ cancelled' = FALSE /\ sentAfterCancel' = FALSE
    /\ requests' = <<>> /\ progress' = <<>> /\ createFileReq' = NoRequest
    /\ \E t \in targets :
         /\ dstDir' = [Path |-> t.Path]
         /\ file' = [Name |-> t.Name, Size |-> file.Size]
    /\ UNCHANGED <<d, targets, echoPartNo, remote, nextPartId>>

\* resp, err := d.client.R().Get("/api/uploads/" + uploadID) and the filling of
\* existingChunks; the loop starts at chunkNo 1.
Lookup ==
    /\ pc = "lookup"
    /\ \E resp \in LookupResponses(RegistryOf(uploadID)) :
         /\ existingChunks' = ExistingChunks(resp)
         /\ requests' = Append(requests, Request("lookup", "", 0, 0, 0, 0, Served(resp)))
    /\ chunkNo' = 1
    /\ pc' = "loop"
    /\ UNCHANGED <<inputs, remote, nextPartId, run, partsToCommit, uploadedSize, pos,
                   ctx, progress, createFileReq, result, prev>>

\* One loop iteration for a chunk found in existingChunks.
SkipChunk ==
    /\ pc = "loop" /\ LoopContinues(chunkNo, totalChunks)
    /\ chunkNo \in DOMAIN existingChunks
    /\ LET existing == existingChunks[chunkNo] IN
         /\ pos' = pos + BytesRead(SkipLength(existing), fileSize - pos)
         /\ partsToCommit' = Append(partsToCommit, existing)
         /\ uploadedSize' = uploadedSize + existing.Size
         /\ progress' = Append(progress, [chunkNo |-> chunkNo,
                                          uploaded |-> uploadedSize + existing.Size,
                                          total |-> fileSize])
    /\ chunkNo' = NextChunkNo(chunkNo)
    /\ UNCHANGED <<inputs, remote, nextPartId, run, pc, existingChunks, ctx,
                   requests, createFileReq, result, prev>>

\* One loop iteration for a chunk not in existingChunks: the POST of the chunk
\* and the handling of its answer.
TransferChunk ==
    /\ pc = "loop" /\ LoopContinues(chunkNo, totalChunks)
    /\ chunkNo \notin DOMAIN existingChunks
    /\ LET n   == ChunkLength(chunkNo, totalChunks, chunkSize, fileSize, uploadedSize)
           len == BytesRead(n, fileSize - pos)
           chunkName == ChunkName(d, file.Name, totalChunks, chunkNo, NewUuid)
       IN \E resp \in TransferResponses(chunkNo, len) :
            LET e == TransferError(resp) IN
            /\ requests' = Append(requests, Request("transfer", chunkName, chunkNo, n, pos, len,
                                                      ServedPart(resp)))
            /\ pos' = pos + len
            /\ IF ServedPart(resp)
               THEN /\ remote' = StorePart(uploadID, PartFile(chunkNo, resp.part.PartId, len))
                    /\ nextPartId' = nextPartId + 1
               ELSE UNCHANGED <<remote, nextPartId>>
            /\ IF e # NoError
               THEN /\ result' = [returned |-> TRUE, obj |-> NoObject, err |-> e]
                    /\ pc' = "done"
                    /\ UNCHANGED <<uploadedSize, partsToCommit, progress, chunkNo>>
               ELSE /\ uploadedSize' = uploadedSize + n
                    /\ partsToCommit' = Append(partsToCommit, resp.part)
                    /\ progress' = Append(progress, [chunkNo |-> chunkNo,
                                                     uploaded |-> uploadedSize + n,
                                                     total |-> fileSize])
                    /\ chunkNo' = NextChunkNo(chunkNo)
                    /\ UNCHANGED <<result, pc>>
    /\ sentAfterCancel' = (sentAfterCancel \/ cancelled)
    /\ UNCHANGED <<inputs, run, existingChunks, cancelled, createFileReq, prev>>

\* After the loop: the sort, the manifest, POST /api/files and its answer.
CreateFile ==
    /\ pc = "loop" /\ ~LoopContinues(chunkNo, totalChunks)
    /\ LET sorted == SortByPartNo(partsToCommit) IN
         /\ partsToCommit' = sorted
         /\ createFileReq' = [Name |-> file.Name, Type |-> "file", Size |-> fileSize,
                              Parts |-> FileChunks(sorted)]
    /\ \E resp \in CreateResponses :
         LET e == CreateError(resp) IN
         /\ requests' = Append(requests, Request("create", "", 0, 0, 0, 0, Served(resp)))
         /\ result' = IF e # NoError THEN [returned |-> TRUE, obj |-> NoObject, err |-> e]
                      ELSE [returned |-> TRUE, err |-> NoError,
                            obj |-> [Name |-> file.Name, Size |-> fileSize, IsFolder |-> FALSE]]
    /\ pc' = "done"
    /\ sentAfterCancel' = (sentAfterCancel \/ cancelled)
    /\ UNCHANGED <<inputs, remote, nextPartId, run, existingChunks, uploadedSize,
                   chunkNo, pos, cancelled, progress, prev>>

\* The caller cancels ctx while Put runs.
Cancel ==
    /\ pc \in {"lookup", "loop"}
    /\ ~cancelled
    /\ cancelled' = TRUE
    /\ UNCHANGED <<inputs, remote, nextPartId, run, pc, locals, sentAfterCancel,
                   requests, progress, createFileReq, result, prev>>

\* ------------------------------------------------------------ initial state
FileSizes == {j * MB + r : j \in 0..MaxFileMB, r \in RemainderBytes} \cup {-1}

Uploads ==
    {[ChunkSize |-> c, Size |-> s] : c \in ChunkSizesMB, s \in FileSizes}
    \cup {[ChunkSize |-> DefaultChunkSize, Size |-> ScenarioFileSize]}

\* ids of the parts in the registry before the first call
StaleId(no) == no + 1
FirstNewPartId == StaleId(Cardinality(StalePartNos)) + 1

StaleRegistries(csize) ==
    UNION { [nos -> {csize, 2 * csize}] \X [nos -> BOOLEAN] :
            nos \in {s \in SUBSET StalePartNos : Cardinality(s) <= MaxStaleParts} }

\* Before the first call of Put: nothing sent, nothing read, nothing returned.
InitCall ==
    /\ run = 0
    /\ pc = "idle"
    /\ existingChunks = EmptyMap /\ partsToCommit = <<>> /\ uploadedSize = 0
    /\ chunkNo = 0 /\ pos = 0 /\ cancelled = FALSE /\ sentAfterCancel = FALSE
    /\ requests = <<>> /\ progress = <<>> /\ createFileReq = NoRequest
    /\ result = NoResult
    /\ prev = NoSummary

Init ==
    /\ \E u \in Uploads :
         /\ d = [ChunkSize |-> u.ChunkSize, userId |-> 1, RandomChunkName |-> TRUE]
         /\ file = [Name |-> "a.bin", Size |-> u.Size]
    /\ dstDir = [Path |-> "/"]
    /\ targets = {[Path |-> "/", Name |-> "a.bin"]}
    /\ echoPartNo \in BOOLEAN
    /\ \E st \in StaleRegistries(chunkSize) :
         remote = IF DOMAIN st[1] = {} THEN EmptyMap
                  ELSE [u \in {uploadID} |->
                          [no \in DOMAIN st[1] |->
                             PartFile(no, IF st[2][no] THEN StaleId(no) ELSE 0, st[1][no])]]
    /\ nextPartId = FirstNewPartId
    /\ InitCall

Next ==
    \/ PutUnknownSize
    \/ PutBegin
    \/ Lookup
    \/ SkipChunk
    \/ TransferChunk
    \/ CreateFile
    \/ Cancel

Spec == Init /\ [][Next]_vars

\* Uploads under either chunk-naming policy, of files of 1, 2 and
\* MaxNamedChunks chunks of 1 MB, to a session with an empty registry.
NamingSizes == {-1, MB, 2 * MB, MaxNamedChunks * MB}

InitNaming ==
    /\ \E random \in BOOLEAN :
         d = [ChunkSize |-> 1, userId |-> 1, RandomChunkName |-> random]
    /\ \E size \in NamingSizes : file = [Name |-> "a.bin", Size |-> size]
    /\ dstDir = [Path |-> "/"]
    /\ targets = {[Path |-> "/", Name |-> "a.bin"]}
    /\ echoPartNo = TRUE
    /\ remote = EmptyMap
    /\ nextPartId = FirstNewPartId
    /\ InitCall

SpecNaming == InitNaming /\ [][Next]_vars

\* Calls of Put for several files of one size and one owner, in the root
\* directory and in directories and under names that hold a ':'.
SessionTargets ==
    { [Path |-> "/",       Name |-> "a.bin"],
      [Path |-> "/docs",   Name |-> "a.bin"],
      [Path |-> "/docs",   Name |-> "a:b.bin"],
      [Path |-> "/docs:a", Name |-> "b.bin"] }

SessionSizes == {-1, MB, 2 * MB}

InitSessions ==
    /\ d = [ChunkSize |-> 1, userId |-> 1, RandomChunkName |-> TRUE]
    /\ targets = SessionTargets
    /\ \E t \in targets, size \in SessionSizes :
         /\ dstDir = [Path |-> t.Path]
         /\ file = [Name |-> t.Name, Size |-> size]
    /\ echoPartNo = TRUE
    /\ remote = EmptyMap
    /\ nextPartId = FirstNewPartId
    /\ InitCall

SpecSessions == InitSessions /\ [][Next]_vars

\* ------------------------------------------------------------------ claims
IsTransfer(r) == r.kind = "transfer"
IsCreate(r) == r.kind = "create"
TransferRequests == SelectSeq(requests, IsTransfer)
CreateSent == createFileReq.Type = "file"
Planned == 1..totalChunks
\* planned bytes of chunk k: [C*(k-1), min(C*k, S))
PlannedOffset(k) == chunkSize * (k - 1)
PlannedLength(k) == Min(chunkSize * k, fileSize) - PlannedOffset(k)
\* The part the registry holds for chunk k: the one reused, or the one transferred.
PartOfChunk(k) == RegistryOf(uploadID)[k]

\* C1: whenever the create-file request is issued, entry i of its manifest is
\* the (part id, salt) of the chunk with sequence number i, for i = 1..totalChunks,
\* whatever mix of chunks was skipped and transferred.
C1_ManifestInChunkOrder ==
    CreateSent =>
        /\ Len(createFileReq.Parts) = totalChunks
        /\ \A i \in Planned : createFileReq.Parts[i] = FilePart(PartOfChunk(i))

\* C2: when Put starts processing chunk k, exactly C*(k-1) bytes of the stream
\* have been consumed, and every transferred chunk k carries exactly the bytes
\* at offsets [C*(k-1), min(C*k, S)).
C2_StreamPositionMatchesChunk ==
    /\ (pc = "loop" /\ LoopContinues(chunkNo, totalChunks)) => pos = PlannedOffset(chunkNo)
    /\ \A i \in DOMAIN requests :
         IsTransfer(requests[i]) =>
             /\ requests[i].offset = PlannedOffset(requests[i].chunkNo)
             /\ requests[i].len = PlannedLength(requests[i].chunkNo)

\* The previous call was interrupted after it had transferred chunks 1..ResumeK,
\* and the registry of the session holds exactly those parts as this call begins.
ResumeK == Cardinality(prev.transferred)
Resumed ==
    /\ prev.valid /\ prev.failed
    /\ ResumeK >= 1
    /\ prev.transferred = 1..ResumeK
    /\ prev.registered = prev.transferred
LookupDone == requests # <<>>
LookupServed == LookupDone /\ requests[1].served
LookupFailed == LookupDone /\ ~requests[1].served
\* No transfer for a chunk already transferred; a call that reaches the
\* create-file request has transferred exactly ResumeK+1..totalChunks and has
\* consumed the whole stream.
ResumeOutcome ==
    /\ \A i \in DOMAIN requests : IsTransfer(requests[i]) => requests[i].chunkNo > ResumeK
    /\ CreateSent =>
         /\ Len(TransferRequests) = totalChunks - ResumeK
         /\ \A i \in DOMAIN TransferRequests : TransferRequests[i].chunkNo = ResumeK + i
         /\ pos = fileSize

\* C3 (as stated): a second call after a call interrupted behind chunk k issues
\* no transfer for chunks 1..k, transfers exactly k+1..totalChunks and consumes
\* S bytes of the stream.
C3_ResumeSkipsTransferred == Resumed => ResumeOutcome

\* C3 (amended): the same, for a second call whose registry lookup is served
\* (a 200 with a body that parses).
C3_ResumeAfterServedLookup == (Resumed /\ LookupServed) => ResumeOutcome

C3_Witness ==
    /\ Resumed /\ LookupServed /\ CreateSent
    /\ ResumeK < totalChunks
    /\ Len(TransferRequests) = totalChunks - ResumeK
    /\ pos = fileSize

FailedTransfer(r) == IsTransfer(r) /\ ~r.served

\* C4: when the transfer of chunk k fails (transport error, status other than
\* 200, body that does not parse, 200 without a part id), Put returns an error
\* and no object, issues no later request (no transfer, no create-file) and
\* reports no progress for chunk k or a later chunk.
C4_TransferFailureAborts ==
    \A i \in DOMAIN requests :
        FailedTransfer(requests[i]) =>
            /\ i = Len(requests)
            /\ pc = "done" /\ result.returned
            /\ result.err # NoError /\ result.obj = NoObject
            /\ ~CreateSent
            /\ \A j \in DOMAIN progress : progress[j].chunkNo < requests[i].chunkNo

C4_Witness ==
    /\ requests # <<>>
    /\ FailedTransfer(requests[Len(requests)])
    /\ requests[Len(requests)].chunkNo >= 2
    /\ progress # <<>>
    /\ result.err.msg = "upload chunk failed: no part id"

\* C5: the values passed to the progress reporter never decrease, and the last
\* one reported before the create-file request is 100% (uploaded = total).
C5_ProgressMonotoneTo100 ==
    /\ \A i, j \in DOMAIN progress :
         i < j => progress[i].uploaded <= progress[j].uploaded
    /\ (CreateSent /\ progress # <<>>) =>
         progress[Len(progress)].uploaded = progress[Len(progress)].total

Skipped(k) == k \in DOMAIN existingChunks /\ \E j \in DOMAIN progress : progress[j].chunkNo = k
Committed(k) == \E i \in DOMAIN requests :
                    IsTransfer(requests[i]) /\ requests[i].served /\ requests[i].chunkNo = k

\* C6: one call issues the create-file request at most once, as its last
\* request and only when every chunk 1..totalChunks is Skipped or Committed;
\* the manifest has exactly totalChunks entries, whatever the registry held.
C6_OneCreateAfterAllChunks ==
    /\ Cardinality({i \in DOMAIN requests : IsCreate(requests[i])}) <= 1
    /\ CreateSent <=> \E i \in DOMAIN requests : IsCreate(requests[i])
    /\ \A i \in DOMAIN requests : IsCreate(requests[i]) => i = Len(requests)
    /\ CreateSent =>
         /\ Len(createFileReq.Parts) = totalChunks
         /\ Len(progress) = totalChunks
         /\ \A k \in Planned : (Skipped(k) \/ Committed(k)) /\ progress[k].chunkNo = k

C6_Witness ==
    /\ CreateSent /\ totalChunks >= 2
    /\ Len(createFileReq.Parts) = totalChunks
    /\ \E k \in DOMAIN existingChunks : k \notin Planned
    /\ \E k \in Planned : Skipped(k)
    /\ \E k \in Planned : Committed(k)

RECURSIVE SumOfN(_)
SumOfN(reqs) == IF reqs = <<>> THEN 0 ELSE reqs[1].n + SumOfN(Tail(reqs))

\* C7: totalChunks = ceil(S/C); with no part taken from the registry the
\* transfers carry C bytes for chunks 1..totalChunks-1 and S - C*(totalChunks-1)
\* for the last, S in sum; S = 1,200,000,000 with 500 MB chunks gives 3 chunks.
C7_ChunkPlan ==
    fileSize >= 0 =>
        /\ totalChunks * chunkSize >= fileSize
        /\ (totalChunks - 1) * chunkSize < fileSize
        /\ (fileSize = ScenarioFileSize /\ d.ChunkSize = DefaultChunkSize) => totalChunks = 3
        /\ existingChunks = EmptyMap =>
             /\ \A i \in DOMAIN requests :
                  IsTransfer(requests[i]) =>
                      requests[i].n = IF requests[i].chunkNo < totalChunks THEN chunkSize
                                      ELSE fileSize - chunkSize * (totalChunks - 1)
             /\ CreateSent =>
                  /\ Len(TransferRequests) = totalChunks
                  /\ SumOfN(TransferRequests) = fileSize

C7_Witness ==
    /\ fileSize = ScenarioFileSize /\ d.ChunkSize = DefaultChunkSize
    /\ existingChunks = EmptyMap /\ CreateSent
    /\ Len(TransferRequests) = 3
    /\ TransferRequests[3].n < chunkSize
    /\ SumOfN(TransferRequests) = fileSize

\* C8: once ctx is cancelled Put issues no further chunk-transfer or create-file
\* request and returns an error instead of a file record.
C8_CancelStopsRequests ==
    /\ ~sentAfterCancel
    /\ (cancelled /\ result.returned) => (result.err # NoError /\ result.obj = NoObject)

Mentions(e, k) == \E j \in DOMAIN e.args : e.args[j] = ToString(k)

\* C9: when the transfer of chunk k fails, the error Put returns names k.
C9_ErrorNamesChunk ==
    \A i \in DOMAIN requests :
        FailedTransfer(requests[i]) => Mentions(result.err, requests[i].chunkNo)

\* C10: a failed registry lookup (transport error, status other than 200, body
\* that does not parse) does not abort Put, which goes on as with an empty
\* registry: no chunk is skipped, the requests that follow are the transfers of
\* chunks 1, 2, ... in order and, after chunk totalChunks, the create-file request.
C10_FailedLookupIsEmptyRegistry ==
    LookupFailed =>
        /\ existingChunks = EmptyMap
        /\ pc = "done" => Len(requests) >= 2
        /\ \A i \in 2..Len(requests) :
             \/ IsTransfer(requests[i]) /\ requests[i].chunkNo = i - 1 /\ i - 1 \in Planned
             \/ IsCreate(requests[i]) /\ i = totalChunks + 2
        /\ (pc = "done" /\ \A i \in DOMAIN requests : ~FailedTransfer(requests[i])) => CreateSent

C10_Witness ==
    /\ LookupFailed /\ CreateSent
    /\ totalChunks >= 2
    /\ 1 \in prev.registered
    /\ Len(TransferRequests) = totalChunks

\* C11: when the source reports a negative (unknown) size, Put returns the
\* unsupported-size error and no object, issues no request of any kind, reports
\* no progress and consumes no byte of the stream.
C11_UnknownSizeRejected ==
    (run >= 1 /\ fileSize < 0) =>
        /\ requests = <<>> /\ ~CreateSent
        /\ progress = <<>>
        /\ pos = 0
        /\ pc = "done" /\ result.returned
        /\ result.obj = NoObject
        /\ result.err.msg = "unknown size not supported"

C11_Witness ==
    /\ run >= 1 /\ fileSize < 0
    /\ result.returned /\ result.err.msg = "unknown size not supported"
    /\ requests = <<>>

\* C12: for a file of size 0, whatever the chunk size and the registry hold, Put
\* issues no chunk-transfer request and reuses no part; once it has returned it
\* has issued exactly one create-file request, for size 0 with an empty manifest
\* (the plan has zero chunks), and when that request was served it returns a
\* file record of size 0.
C12_EmptyFile ==
    (run >= 1 /\ fileSize = 0) =>
        /\ totalChunks = 0
        /\ TransferRequests = <<>>
        /\ partsToCommit = <<>> /\ progress = <<>> /\ pos = 0
        /\ pc = "done" =>
              /\ Len(SelectSeq(requests, IsCreate)) = 1
              /\ IsCreate(requests[Len(requests)])
              /\ createFileReq.Size = 0
              /\ createFileReq.Parts = <<>>
              /\ requests[Len(requests)].served =>
                    /\ result.err = NoError
                    /\ result.obj # NoObject
                    /\ result.obj.Size = 0

C12_Witness ==
    /\ run >= 1 /\ fileSize = 0 /\ pc = "done"
    /\ DOMAIN existingChunks # {}
    /\ createFileReq.Parts = <<>>
    /\ result.err = NoError /\ result.obj.Size = 0

\* C13: when the create-file request ends in a transport error, a non-200 status
\* or an unparseable body, Put returns an error and no file record; that request
\* is the last request of the run and the only create-file request, and every
\* part gathered for the manifest, reused or transferred, is still in the
\* registry of the session.
CreateFailed ==
    /\ requests # <<>>
    /\ IsCreate(requests[Len(requests)])
    /\ ~requests[Len(requests)].served

C13_CreateFailureAborts ==
    CreateFailed =>
        /\ pc = "done" /\ result.returned
        /\ result.err # NoError
        /\ result.obj = NoObject
        /\ Len(SelectSeq(requests, IsCreate)) = 1
        /\ \A i \in DOMAIN partsToCommit :
              \E no \in DOMAIN RegistryOf(uploadID) :
                 RegistryOf(uploadID)[no].PartId = partsToCommit[i].PartId
        /\ \A i \in DOMAIN requests :
              (IsTransfer(requests[i]) /\ requests[i].served) =>
                 requests[i].chunkNo \in DOMAIN RegistryOf(uploadID)

C13_Witness ==
    /\ CreateFailed /\ result.returned /\ result.obj = NoObject
    /\ Len(partsToCommit) >= 2
    /\ DOMAIN existingChunks # {}
    /\ TransferRequests # <<>>

\* C14: within a run the chunks are processed in ascending sequence number, one
\* at a time and once each: the transfer requests of the run carry strictly
\* increasing sequence numbers (so none is sent twice), a transfer request for
\* chunk k is sent only when every chunk j < k has been skipped or committed,
\* and a request that was not answered with a part is the last one of the run.
ProcessedBefore(k) == {j \in 1..(k - 1) : Skipped(j) \/ Committed(j)}

C14_AscendingOneAtATime ==
    /\ \A i, j \in DOMAIN TransferRequests :
          i < j => TransferRequests[i].chunkNo < TransferRequests[j].chunkNo
    /\ \A i \in DOMAIN TransferRequests :
          LET k == TransferRequests[i].chunkNo IN
          /\ k \in Planned
          /\ ProcessedBefore(k) = 1..(k - 1)
    /\ \A i \in DOMAIN requests :
          (IsTransfer(requests[i]) /\ ~requests[i].served) => i = Len(requests)
    /\ pc = "loop" => \A j \in 1..(chunkNo - 1) : Skipped(j) \/ Committed(j)

C14_Witness ==
    /\ Len(TransferRequests) >= 2
    /\ \E j \in Planned : Skipped(j)
    /\ \E i \in DOMAIN TransferRequests :
          TransferRequests[i].chunkNo = 3 /\ ProcessedBefore(3) = {1, 2}

\* C16: every part id in the manifest of the create-file request is non-zero,
\* for parts reused from the registry as for parts transferred in this run.
C16_ManifestPartIdsNonZero ==
    CreateSent => \A i \in DOMAIN createFileReq.Parts : createFileReq.Parts[i].ID # 0

\* C17: in every run, for any registry content, 0 <= uploadedSize <= fileSize
\* and uploadedSize never decreases, every length n handed to a chunk transfer
\* has 0 < n <= chunkSize, and uploadedSize = fileSize when the create-file
\* request is issued.
C17_ProcessedBytesBounded ==
    /\ fileSize >= 0 => (0 <= uploadedSize /\ uploadedSize <= fileSize)
    /\ \A i \in DOMAIN progress :
          /\ 0 <= progress[i].uploaded /\ progress[i].uploaded <= fileSize
          /\ i > 1 => progress[i - 1].uploaded <= progress[i].uploaded
    /\ \A i \in DOMAIN TransferRequests :
          0 < TransferRequests[i].n /\ TransferRequests[i].n <= chunkSize
    /\ CreateSent => uploadedSize = fileSize

\* C15: the name sent with every transferred chunk follows the naming policy.
\* With RandomChunkName the name is the digest of an identifier that no other
\* chunk of the upload got, in this run or in the run before it; without it
\* and with more than one chunk, chunk k is named <fileName>.part.<k in three
\* digits>; without it and with one chunk, the name is the file name. In each
\* case the chunks transferred in a run have pairwise distinct names.
Digit(x) == ToString(x % 10)
ThreeDigits(k) == Digit(k \div 100) \o Digit(k \div 10) \o Digit(k)

C15_ChunkNamingPolicy ==
    /\ \A i \in DOMAIN TransferRequests :
          LET r == TransferRequests[i] IN
          IF d.RandomChunkName
          THEN /\ Len(r.name) = 2 /\ r.name[1] = "md5"
               /\ r.name \notin prev.names
          ELSE IF totalChunks > 1
          THEN r.name = file.Name \o ".part." \o ThreeDigits(r.chunkNo)
          ELSE r.name = file.Name
    /\ \A i, j \in DOMAIN TransferRequests :
          i # j => TransferRequests[i].name # TransferRequests[j].name

C15_Witness ==
    /\ ~d.RandomChunkName
    /\ totalChunks = MaxNamedChunks
    /\ Len(TransferRequests) >= 2
    /\ TransferRequests[Len(TransferRequests)].chunkNo >= 10
    /\ prev.names # {}

\* C18: two calls of Put whose identities (parent path, file name, file size,
\* owner id) differ in a component do not use the same upload id, and a call
\* reuses no part that a call with another identity registered.
ReusedFromPrev == {k \in DOMAIN existingChunks : k \in prev.transferred}

C18_SessionIsolation ==
    (prev.valid /\ ~UnknownSize(fileSize) /\ prev.identity # Identity) =>
        /\ prev.session # uploadID
        /\ ReusedFromPrev = {}

====
